---- MODULE Spec2Model ----
(***************************************************************************)
(* Gear-Simulation: the inverse gear-design solver (calculateGearDesign),  *)
(* the per-tick simulator (simulateStep) and the App component that drives *)
(* them (requirements, design, running flag, simulation clock and the      *)
(* bounded history of simulation points).                                  *)
(*                                                                         *)
(* JavaScript numbers are modelled as exact values s * (n/d) * 10^e plus   *)
(* the IEEE specials +Infinity, -Infinity, NaN and the signed zero; the    *)
(* rounding error of binary floating point is not modelled.  The decimal   *)
(* exponent e keeps the unit conversions of the source (1e6, /1000) out of *)
(* the 32-bit integers TLC computes with.                                  *)
(***************************************************************************)
EXTENDS Integers, Sequences, FiniteSets, TLC

VARIABLES req, design, simulationData, isRunning, simTime, framePeriod,
          solveLog, stepLog, genAI, calls, query, response, loading, zoom,
          zoomClicks, exports

vars == <<req, design, simulationData, isRunning, simTime, framePeriod,
          solveLog, stepLog, genAI, calls, query, response, loading, zoom,
          zoomClicks, exports>>

\* AiAssistant: the text of the input, the advice shown and the busy flag.
assistantVars == <<query, response, loading>>

\* geminiService: the client singleton and the calls of getEngineeringAdvice;
\* with them the state of the panel that calls it and the zoom of
\* GearVisualizer, which the solver, the simulator and the buttons of App
\* other than optimize never touch.  zoomClicks counts the presses of the
\* zoom-in and zoom-out buttons, to bound the runs explored; exports records
\* the last two calls of generateGearDXF.
advisorVars == <<genAI, calls, assistantVars, zoom, zoomClicks, exports>>

appVars == <<req, design, simulationData, isRunning, simTime, framePeriod>>

-----------------------------------------------------------------------------
(* JavaScript number arithmetic                                            *)

Abs(x) == IF x < 0 THEN -x ELSE x

Min(a, b) == IF a <= b THEN a ELSE b

Max(a, b) == IF a >= b THEN a ELSE b

RECURSIVE GCD(_, _)
GCD(a, b) == IF b = 0 THEN a ELSE GCD(b, a % b)

RECURSIVE IPow(_, _)
IPow(b, k) == IF k <= 0 THEN 1 ELSE b * IPow(b, k - 1)

\* The number of times the prime p divides x (x > 0).
RECURSIVE Val(_, _)
Val(p, x) == IF x % p = 0 THEN 1 + Val(p, x \div p) ELSE 0

NaN == [k |-> "nan", s |-> 1, n |-> 0, d |-> 1, e |-> 0]

Inf(s) == [k |-> "inf", s |-> s, n |-> 0, d |-> 1, e |-> 0]

Zero(s) == [k |-> "fin", s |-> s, n |-> 0, d |-> 1, e |-> 0]

\* The canonical form of s * (n/d) * 10^e (n >= 0, d > 0): n/d in lowest
\* terms, and 10^e holding the tens shared by the primes 2 and 5 of the value,
\* so that equal values are equal records.
\* (The steps are operators with parameters, each value computed once.)
SharedTens(a, b) ==
    IF a > 0 /\ b > 0 THEN Min(a, b)
    ELSE IF a < 0 /\ b < 0 THEN Max(a, b)
    ELSE 0

\* The part of x > 0 made of the primes 2 and 5.
TwosAndFives(x) == IPow(2, Val(2, x)) * IPow(5, Val(5, x))

\* rn and rd are prime to 10; a and b are the powers of 2 and of 5.
Pack(s, rn, rd, a, b, x) ==
    [k |-> "fin", s |-> s,
     n |-> rn * IPow(2, a - x) * IPow(5, b - x),
     d |-> rd * IPow(2, x - a) * IPow(5, x - b),
     e |-> x]

Split(s, rn, rd, a, b) == Pack(s, rn, rd, a, b, SharedTens(a, b))

\* n1 / d1 is in lowest terms.
Reduced(s, n1, d1, e) ==
    Split(s, n1 \div TwosAndFives(n1), d1 \div TwosAndFives(d1),
          Val(2, n1) - Val(2, d1) + e, Val(5, n1) - Val(5, d1) + e)

Norm(s, n, d, e) ==
    IF n = 0 THEN Zero(s)
    ELSE Reduced(s, n \div GCD(n, d), d \div GCD(n, d), e)

\* The number i / d for integers i and d > 0, and i * 10^e.
Frac(i, d) == Norm(IF i < 0 THEN -1 ELSE 1, Abs(i), d, 0)

Num(i) == Frac(i, 1)

Sci(i, e) == Norm(IF i < 0 THEN -1 ELSE 1, Abs(i), 1, e)

IsNaN(a) == a.k = "nan"

IsFinite(a) == a.k = "fin"

IsZero(a) == a.k = "fin" /\ a.n = 0

Neg(a) == IF a.k = "nan" THEN a ELSE [a EXCEPT !.s = -a.s]

\* a * b
Mul(a, b) ==
    IF a.k = "nan" \/ b.k = "nan" THEN NaN
    ELSE IF a.k = "inf" \/ b.k = "inf"
         THEN IF IsZero(a) \/ IsZero(b) THEN NaN ELSE Inf(a.s * b.s)
    ELSE IF a.n = 0 \/ b.n = 0 THEN Zero(a.s * b.s)
    ELSE LET g1 == GCD(a.n, b.d)
             g2 == GCD(b.n, a.d)
         IN  Norm(a.s * b.s, (a.n \div g1) * (b.n \div g2),
                  (a.d \div g2) * (b.d \div g1), a.e + b.e)

\* a / b
Div(a, b) ==
    IF a.k = "nan" \/ b.k = "nan" THEN NaN
    ELSE IF a.k = "inf"
         THEN IF b.k = "inf" THEN NaN ELSE Inf(a.s * b.s)
    ELSE IF b.k = "inf" THEN Zero(a.s * b.s)
    ELSE IF b.n = 0
         THEN IF a.n = 0 THEN NaN ELSE Inf(a.s * b.s)
    ELSE Mul(a, [k |-> "fin", s |-> b.s, n |-> b.d, d |-> b.n, e |-> -b.e])

\* sum / den * 10^x, the sum of the finite a and b; -0 + -0 is -0.
Signed(a, b, sum, den, x) ==
    IF sum = 0
    THEN Zero(IF a.n = 0 /\ b.n = 0 /\ a.s = -1 /\ b.s = -1 THEN -1 ELSE 1)
    ELSE Norm(IF sum < 0 THEN -1 ELSE 1, Abs(sum), den, x)

\* a and b brought to the exponent x and the denominator lcm(a.d, b.d).
Aligned(a, b, x, g) ==
    Signed(a, b,
           a.s * a.n * IPow(10, a.e - x) * (b.d \div g)
             + b.s * b.n * IPow(10, b.e - x) * (a.d \div g),
           (a.d \div g) * b.d, x)

\* a + b
Add(a, b) ==
    IF a.k = "nan" \/ b.k = "nan" THEN NaN
    ELSE IF a.k = "inf"
         THEN IF b.k = "inf" /\ b.s # a.s THEN NaN ELSE a
    ELSE IF b.k = "inf" THEN b
    ELSE Aligned(a, b, Min(a.e, b.e), GCD(a.d, b.d))

\* a - b
Sub(a, b) == Add(a, Neg(b))

\* p1/q1 >= p2/q2 for positive integers, by continued fractions: no product
\* is formed, so nothing leaves the 32-bit integers.
RECURSIVE FracGeq(_, _, _, _)
FracGeq(p1, q1, p2, q2) ==
    IF p1 \div q1 # p2 \div q2 THEN p1 \div q1 > p2 \div q2
    ELSE IF p2 % q2 = 0 THEN TRUE
    ELSE IF p1 % q1 = 0 THEN FALSE
    ELSE FracGeq(q2, p2 % q2, q1, p1 % q1)

\* a >= b for finite a > 0 and b > 0, both brought to the exponent x
PosGeq(a, b, x) ==
    FracGeq(a.n * IPow(10, a.e - x), a.d, b.n * IPow(10, b.e - x), b.d)

\* a >= b  (false when either is NaN)
Geq(a, b) ==
    IF a.k = "nan" \/ b.k = "nan" THEN FALSE
    ELSE IF a = b THEN TRUE
    ELSE IF a.k = "inf" THEN a.s = 1
    ELSE IF b.k = "inf" THEN b.s = -1
    ELSE IF a.n = 0 THEN b.n = 0 \/ b.s = -1
    ELSE IF b.n = 0 THEN a.s = 1
    ELSE IF a.s # b.s THEN a.s = 1
    ELSE IF a.s = 1 THEN PosGeq(a, b, Min(a.e, b.e))
    ELSE PosGeq(Neg(b), Neg(a), Min(a.e, b.e))

\* a <= b
Leq(a, b) == Geq(b, a)

\* a === b  (NaN equals nothing, +0 equals -0)
Eq(a, b) ==
    /\ a.k # "nan"
    /\ b.k # "nan"
    /\ (a = b \/ (IsZero(a) /\ IsZero(b)))

\* The integers num and den > 0 with a = num / den, for a finite a.
Numer(a) == a.s * a.n * IPow(10, a.e)

Denom(a) == a.d * IPow(10, -a.e)

\* Math.round: the nearest integer, halves toward +Infinity; a result of
\* zero keeps the sign of the argument.
Round(a) ==
    IF a.k # "fin" THEN a
    ELSE LET r == (2 * Numer(a) + Denom(a)) \div (2 * Denom(a))
         IN  IF r = 0 THEN Zero(a.s) ELSE Num(r)

\* Math.ceil
Ceil(a) ==
    IF a.k # "fin" THEN a
    ELSE LET r == -((-Numer(a)) \div Denom(a))
         IN  IF r = 0 THEN Zero(a.s) ELSE Num(r)

-----------------------------------------------------------------------------
(* Real cube roots.  Math.pow(x, 1/3) is irrational in general, so the     *)
(* value is carried as "the non-negative real whose cube is c" and is only *)
(* scaled, compared and rounded up, which are all exact on c.              *)

\* Math.pow(x, 1/3): NaN for NaN and for a negative finite x, +Infinity for
\* both infinities, +0 for both zeros.
CubeRoot(x) ==
    [cube |-> IF x.k = "nan" THEN NaN
              ELSE IF x.k = "inf" THEN Inf(1)
              ELSE IF x.n = 0 THEN Zero(1)
              ELSE IF x.s = -1 THEN NaN
              ELSE x]

\* r * f for a root r and a positive number f
RootTimes(r, f) == [cube |-> Mul(r.cube, Mul(f, Mul(f, f)))]

\* m >= r for a number m > 0 and a root r
GeqRoot(m, r) == Geq(Mul(m, Mul(m, m)), r.cube)

RECURSIVE CeilFrom(_, _)
CeilFrom(c, cube) ==
    IF Geq(Num(c * c * c), cube) THEN c ELSE CeilFrom(c + 1, cube)

\* Math.ceil(r) for a root r
CeilRoot(r) ==
    IF r.cube.k # "fin" THEN r.cube
    ELSE IF r.cube.n = 0 THEN r.cube
    ELSE Num(CeilFrom(1, r.cube))

-----------------------------------------------------------------------------
(* gearMath                                                                *)

InputVariabilities == {"constant", "sine", "noise"}

\* The value of an Array.prototype.find that found nothing.
Undefined == [k |-> "undefined", s |-> 1, n |-> 0, d |-> 1, e |-> 0]

\* a || b on numbers: undefined, NaN and zero are falsy.
OrElse(a, b) ==
    IF a.k = "undefined" \/ a.k = "nan" \/ IsZero(a) THEN b ELSE a

calculateLewisFactor(numTeeth) ==
    Sub(Frac(484, 1000), Div(Frac(287, 100), numTeeth))

standardModules ==
    << Frac(1, 2), Frac(4, 5), Num(1), Frac(5, 4), Frac(3, 2), Num(2),
       Frac(5, 2), Num(3), Num(4), Num(5), Num(6), Num(8), Num(10), Num(12),
       Num(16), Num(20) >>

\* table.find(m => m >= moduleMm): the first entry, in table order, that is
\* at least the raw module.
First(table, hits) ==
    IF hits = {} THEN Undefined
    ELSE table[CHOOSE i \in hits : \A j \in hits : i <= j]

FindModule(table, moduleMm) ==
    First(table, {i \in DOMAIN table : GeqRoot(table[i], moduleMm)})

\* --- calculateGearDesign, one operator per local of the function ---

ratio(r) == Div(r.nominalInputRPM, r.targetOutputRPM)

pinionTeeth == Num(18)

\* A faulty variant of gearTeeth: Math.ceil in place of Math.round.
gearTeethCeiled(r) == Ceil(Mul(pinionTeeth, ratio(r)))

gearTeeth(r) == Round(Mul(pinionTeeth, ratio(r)))

actualRatio(r) == Div(gearTeeth(r), pinionTeeth)

safetyFactor == Num(2)

\* A faulty variant of allowableStress: a larger safety factor under noise.
allowableStressDerated(r) ==
    Div(Mul(r.materialYieldStrength, Sci(1, 6)),
        IF r.inputVariability = "noise" THEN Num(3) ELSE safetyFactor)

\* in Pa
allowableStress(r) == Div(Mul(r.materialYieldStrength, Sci(1, 6)), safetyFactor)

\* A faulty variant of pinionTorque: the output torque, not reduced by the
\* ratio.
pinionTorqueUnreduced(r) == r.targetOutputTorque

pinionTorque(r) == Div(r.targetOutputTorque, actualRatio(r))

\* m^3 = (2 * T) / (k * z * Y * sigma), in cubic meters
mCubed(T, Y, sigma) ==
    Div(Mul(Num(2), T), Mul(Mul(Mul(Num(10), pinionTeeth), Y), sigma))

\* The raw module in millimeters: Math.pow(mCubed, 1/3) * 1000.
moduleMm(r) ==
    RootTimes(CubeRoot(mCubed(pinionTorque(r), calculateLewisFactor(pinionTeeth),
                              allowableStress(r))),
              Num(1000))

\* A faulty variant of snapModule: the module snapped downward, to the
\* largest table entry below the raw module.
snapModuleDown(raw) ==
    LET below == {i \in DOMAIN standardModules :
                    ~GeqRoot(standardModules[i], raw)}
    IN  IF below = {} THEN standardModules[1]
        ELSE standardModules[CHOOSE i \in below : \A j \in below : j <= i]

\* standardModules.find(m => m >= moduleMm) || Math.ceil(moduleMm)
snapModule(raw) == OrElse(FindModule(standardModules, raw), CeilRoot(raw))

selectedModule(r) == snapModule(moduleMm(r))

\* A faulty variant of finalDimensions: the diameters are outside diameters,
\* (teeth + 2) * module, and the gear is given a wider face.
finalDimensionsOutside(r, zGear, iActual, tPinion, m) ==
    LET pinionParams == [ teeth         |-> pinionTeeth,
                          module        |-> m,
                          pressureAngle |-> Num(20),
                          faceWidth     |-> Mul(m, Num(10)),
                          rpm           |-> r.nominalInputRPM,
                          torque        |-> tPinion,
                          diameter      |-> Mul(Add(pinionTeeth, Num(2)), m) ]
        gearParams   == [ teeth         |-> zGear,
                          module        |-> m,
                          pressureAngle |-> Num(20),
                          faceWidth     |-> Mul(m, Num(12)),
                          rpm           |-> Div(r.nominalInputRPM, iActual),
                          torque        |-> r.targetOutputTorque,
                          diameter      |-> Mul(Add(zGear, Num(2)), m) ]
    IN  [ pinion         |-> pinionParams,
          gear           |-> gearParams,
          ratio          |-> iActual,
          centerDistance |-> Div(Add(pinionParams.diameter, gearParams.diameter),
                                 Num(2)),
          safetyFactor   |-> safetyFactor ]

\* A faulty variant of finalDimensions: the safety factor reported is the
\* one realized by the selected module, yield strength over bending stress.
finalDimensionsRealizedSafety(r, zGear, iActual, tPinion, m) ==
    LET pinionParams == [ teeth         |-> pinionTeeth,
                          module        |-> m,
                          pressureAngle |-> Num(20),
                          faceWidth     |-> Mul(m, Num(10)),
                          rpm           |-> r.nominalInputRPM,
                          torque        |-> tPinion,
                          diameter      |-> Mul(pinionTeeth, m) ]
        gearParams   == [ teeth         |-> zGear,
                          module        |-> m,
                          pressureAngle |-> Num(20),
                          faceWidth     |-> Mul(m, Num(10)),
                          rpm           |-> Div(r.nominalInputRPM, iActual),
                          torque        |-> r.targetOutputTorque,
                          diameter      |-> Mul(zGear, m) ]
        force        == Div(tPinion, Div(Mul(pinionTeeth, m), Num(2000)))
        stress       == Div(force,
                            Mul(Mul(Div(m, Num(100)), Div(m, Num(1000))),
                                calculateLewisFactor(pinionTeeth)))
    IN  [ pinion         |-> pinionParams,
          gear           |-> gearParams,
          ratio          |-> iActual,
          centerDistance |-> Div(Add(pinionParams.diameter, gearParams.diameter),
                                 Num(2)),
          safetyFactor   |-> Div(Mul(r.materialYieldStrength, Sci(1, 6)),
                                 stress) ]

\* "Final Dimensions" and the returned DesignResult.
finalDimensions(r, zGear, iActual, tPinion, m) ==
    LET pinionParams == [ teeth         |-> pinionTeeth,
                          module        |-> m,
                          pressureAngle |-> Num(20),
                          faceWidth     |-> Mul(m, Num(10)),
                          rpm           |-> r.nominalInputRPM,
                          torque        |-> tPinion,
                          diameter      |-> Mul(pinionTeeth, m) ]
        gearParams   == [ teeth         |-> zGear,
                          module        |-> m,
                          pressureAngle |-> Num(20),
                          faceWidth     |-> Mul(m, Num(10)),
                          rpm           |-> Div(r.nominalInputRPM, iActual),
                          torque        |-> r.targetOutputTorque,
                          diameter      |-> Mul(zGear, m) ]
    IN  [ pinion         |-> pinionParams,
          gear           |-> gearParams,
          ratio          |-> iActual,
          centerDistance |-> Div(Add(pinionParams.diameter, gearParams.diameter),
                                 Num(2)),
          safetyFactor   |-> safetyFactor ]

calculateGearDesign(r) ==
    finalDimensions(r, gearTeeth(r), actualRatio(r), pinionTorque(r),
                    selectedModule(r))

\* --- simulateStep ---

\* Simulation time is counted in units of pi/4 seconds, the instants at which
\* sin(2 * time) is rational: Math.sin(time * 2) is 0, 1, 0, -1, ...
SinTwice(time) ==
    LET q == time % 4
    IN  IF q = 1 THEN Num(1) ELSE IF q = 3 THEN Num(-1) ELSE Zero(1)

\* A faulty variant of inputFactor: noise of +/- 30 % (a factor 0.6).
inputFactorWideNoise(time, r, u) ==
    IF r.inputVariability = "sine"
    THEN Add(Num(1), Mul(Frac(3, 10), SinTwice(time)))
    ELSE IF r.inputVariability = "noise"
    THEN Add(Num(1), Mul(Sub(u, Frac(5, 10)), Frac(6, 10)))
    ELSE Num(1)

\* Math.sin(time) at the multiples of pi/4, to four decimals.
SinOnce(time) ==
    LET q == time % 8
    IN  IF q \in {0, 4} THEN Zero(1)
        ELSE IF q = 2 THEN Num(1)
        ELSE IF q = 6 THEN Num(-1)
        ELSE IF q \in {1, 3} THEN Frac(7071, 10000)
        ELSE Frac(-7071, 10000)

\* A faulty variant of inputFactor: Math.sin(time), a ripple of period 2 pi.
inputFactorSlowSine(time, r, u) ==
    IF r.inputVariability = "sine"
    THEN Add(Num(1), Mul(Frac(3, 10), SinOnce(time)))
    ELSE IF r.inputVariability = "noise"
    THEN Add(Num(1), Mul(Sub(u, Frac(5, 10)), Frac(4, 10)))
    ELSE Num(1)

\* A faulty variant of inputFactor: the sine ripple in constant mode too.
inputFactorRipple(time, r, u) ==
    IF r.inputVariability = "noise"
    THEN Add(Num(1), Mul(Sub(u, Frac(5, 10)), Frac(4, 10)))
    ELSE Add(Num(1), Mul(Frac(3, 10), SinTwice(time)))

\* "Input variation logic".  u is the value Math.random() returns when the
\* noise branch draws it.
inputFactor(time, r, u) ==
    IF r.inputVariability = "sine"
    THEN Add(Num(1), Mul(Frac(3, 10), SinTwice(time)))
    ELSE IF r.inputVariability = "noise"
    THEN Add(Num(1), Mul(Sub(u, Frac(5, 10)), Frac(4, 10)))
    ELSE Num(1)

\* "Simple stress calculation (Lewis)", in Pa.
stressPa(d, currentInputTorque) ==
    LET Y                 == calculateLewisFactor(d.pinion.teeth)
        pitchRadiusMeters == Div(Div(d.pinion.diameter, Num(2)), Num(1000))
        faceWidthMeters   == Div(d.pinion.faceWidth, Num(1000))
        moduleMeters      == Div(d.pinion.module, Num(1000))
        tangentialForce   == Div(currentInputTorque, pitchRadiusMeters)
    IN  Div(tangentialForce, Mul(Mul(faceWidthMeters, moduleMeters), Y))

\* A faulty variant of stepPoint: constant power, the input torque falling
\* as the input speed rises.
stepPointPowerBalanced(time, d, factor) ==
    [ time         |-> time,
      inputTorque  |-> Div(Div(d.gear.torque, d.ratio), factor),
      outputTorque |-> d.gear.torque,
      inputRPM     |-> Mul(d.pinion.rpm, factor),
      outputRPM    |-> Div(Mul(d.pinion.rpm, factor), d.ratio),
      stress       |-> Div(stressPa(d, Div(Div(d.gear.torque, d.ratio), factor)),
                           Sci(1, 6)) ]

\* A faulty variant of stepPoint: the speeds taken from the gear, not from
\* the pinion.
stepPointGearSpeed(time, d, factor) ==
    [ time         |-> time,
      inputTorque  |-> Div(d.gear.torque, d.ratio),
      outputTorque |-> d.gear.torque,
      inputRPM     |-> Mul(d.gear.rpm, factor),
      outputRPM    |-> Div(Mul(d.gear.rpm, factor), d.ratio),
      stress       |-> Div(stressPa(d, Div(d.gear.torque, d.ratio)), Sci(1, 6)) ]

\* The point for an input factor: the load is a constant torque.
stepPoint(time, d, factor) ==
    [ time         |-> time,
      inputTorque  |-> Div(d.gear.torque, d.ratio),
      outputTorque |-> d.gear.torque,
      inputRPM     |-> Mul(d.pinion.rpm, factor),
      outputRPM    |-> Div(Mul(d.pinion.rpm, factor), d.ratio),
      stress       |-> Div(stressPa(d, Div(d.gear.torque, d.ratio)), Sci(1, 6)) ]

\* A faulty variant of simulateStep: the speed of the source is read from
\* the live requirements instead of the design.
simulateStepLiveSpeed(time, d, r, u) ==
    stepPoint(time, [d EXCEPT !.pinion.rpm = r.nominalInputRPM],
              inputFactor(time, r, u))

simulateStep(time, d, r, u) == stepPoint(time, d, inputFactor(time, r, u))

-----------------------------------------------------------------------------
(* App                                                                     *)

\* useState<string | null>: null, or a string.
Null == [isNull |-> TRUE, text |-> ""]

String(text) == [isNull |-> FALSE, text |-> text]

\* No client has been created and getEngineeringAdvice has not been called;
\* the assistant and the visualizer are as constructed.
AdvisorIdle ==
    /\ genAI = FALSE
    /\ calls = <<>>
    /\ query = <<>>
    /\ response = Null
    /\ loading = FALSE
    /\ zoom = Num(1)
    /\ zoomClicks = 0
    /\ exports = <<>>

\* The requirements App is constructed with.
InitialReq ==
    [ targetOutputTorque    |-> Num(50),
      targetOutputRPM       |-> Num(120),
      nominalInputRPM       |-> Num(1200),
      materialYieldStrength |-> Num(250),
      inputVariability      |-> "constant" ]

\* The capacity of the history buffer.
HistoryCap == 200

\* The largest frame period explored, in units of pi/4 seconds.
MaxFramePeriod == 2

\* The number of running animation frames explored in one run.
MaxTicks == 202

\* The values Math.random() is taken to return: the two ends of [0, 1).
Draws == {Zero(1), Frac(999, 1000)}

\* Math.random() is called in the noise branch only.
DrawsFor(r) == IF r.inputVariability = "noise" THEN Draws ELSE {Undefined}

\* A faulty variant of TrimHistory: slice(0, 200), which keeps the oldest.
TrimHistoryKeepOldest(newData) ==
    IF Len(newData) > HistoryCap
    THEN SubSeq(newData, 1, HistoryCap)
    ELSE newData

\* if (newData.length > 200) return newData.slice(newData.length - 200)
TrimHistory(newData) ==
    IF Len(newData) > HistoryCap
    THEN SubSeq(newData, Len(newData) - HistoryCap + 1, Len(newData))
    ELSE newData

\* A faulty variant of frame: the loop steps the simulation on every
\* animation frame, paused or not.
frameIgnoringPause(limit) ==
    /\ simTime < limit * framePeriod
    /\ \E u \in DrawsFor(req) :
         LET newTime == simTime + framePeriod
             point   == simulateStep(newTime, design, req, u)
         IN  /\ simulationData' = TrimHistory(Append(simulationData, point))
             /\ simTime' = newTime
    /\ UNCHANGED <<req, design, isRunning, framePeriod, solveLog, stepLog>>
    /\ UNCHANGED advisorVars

\* One animation frame.  dt is the frame period: lastTime is refreshed on
\* every frame, running or paused.  Frames are explored up to the clock
\* limit * framePeriod.
frame(limit) ==
    /\ simTime < limit * framePeriod
    /\ IF isRunning
       THEN \E u \in DrawsFor(req) :
              LET dt      == framePeriod
                  newTime == simTime + dt
                  point   == simulateStep(newTime, design, req, u)
                  newData == Append(simulationData, point)
              IN  /\ simulationData' = TrimHistory(newData)
                  /\ simTime' = newTime
       ELSE UNCHANGED <<simulationData, simTime>>
    /\ UNCHANGED <<req, design, isRunning, framePeriod, solveLog, stepLog>>
    /\ UNCHANGED advisorVars

loop == frame(MaxTicks)

\* The run/pause button.
toggleRunning ==
    /\ isRunning' = ~isRunning
    /\ UNCHANGED <<req, design, simulationData, simTime, framePeriod,
                   solveLog, stepLog>>
    /\ UNCHANGED advisorVars

\* A faulty variant of resetSimulation: the clock restarts, the history stays.
resetSimulationKeepsHistory ==
    /\ simTime' = 0
    /\ UNCHANGED <<req, design, simulationData, isRunning, framePeriod,
                   solveLog, stepLog>>
    /\ UNCHANGED advisorVars

\* The reset button.
resetSimulation ==
    /\ simTime' = 0
    /\ simulationData' = <<>>
    /\ UNCHANGED <<req, design, isRunning, framePeriod, solveLog, stepLog>>
    /\ UNCHANGED advisorVars

\* A faulty variant of handleOptimize: the history of the old design stays.
handleOptimizeKeepsHistory ==
    /\ design' = calculateGearDesign(req)
    /\ simTime' = 0
    /\ UNCHANGED <<req, simulationData, isRunning, framePeriod, solveLog,
                   stepLog>>
    /\ UNCHANGED advisorVars

\* GearVisualizer's effect on [design.ratio, design.centerDistance]: the
\* zoom is set to 1 when either differs (by Object.is) from the render before.
zoomOnDesign(z, old, new) ==
    IF new.ratio = old.ratio /\ new.centerDistance = old.centerDistance
    THEN z
    ELSE Num(1)

\* The optimize button.  (The sidebar flag it also clears on narrow windows
\* is layout state and is not modelled.)  The three setters are committed
\* as one update, so the conjuncts are unordered; the solve is written last,
\* and with it the effect of the new design on the visualizer.
handleOptimize ==
    /\ simTime' = 0
    /\ simulationData' = <<>>
    /\ UNCHANGED <<req, isRunning, framePeriod, solveLog, stepLog>>
    /\ UNCHANGED <<genAI, calls, assistantVars, zoomClicks, exports>>
    /\ design' = calculateGearDesign(req)
    /\ zoom' = zoomOnDesign(zoom, design, design')

\* A faulty variant of handleChange: the design follows every edit.
handleChangeResolving(field, value) ==
    /\ req' = [req EXCEPT ![field] = value]
    /\ design' = calculateGearDesign(req')
    /\ UNCHANGED <<simulationData, isRunning, simTime, framePeriod,
                   solveLog, stepLog>>
    /\ UNCHANGED advisorVars

\* InputPanel's handleChange, passed to App's setReq.
handleChange(field, value) ==
    /\ req' = [req EXCEPT ![field] = value]
    /\ UNCHANGED <<design, simulationData, isRunning, simTime, framePeriod,
                   solveLog, stepLog>>
    /\ UNCHANGED advisorVars

AppInit ==
    /\ req = InitialReq
    /\ design = calculateGearDesign(req)
    /\ simulationData = <<>>
    /\ isRunning = FALSE
    /\ simTime = 0
    /\ framePeriod \in 1..MaxFramePeriod
    /\ solveLog = <<>>
    /\ stepLog = <<>>
    /\ AdvisorIdle

\* App driven by frames and by the run/pause, reset and optimize buttons,
\* the requirements left as constructed.
RunNext == loop \/ toggleRunning \/ resetSimulation \/ handleOptimize

SpecRun == AppInit /\ [][RunNext]_vars

\* The number of running animation frames explored when the requirements are
\* edited between frames.
MaxEditTicks == 2

\* The values typed into the number inputs of the panel.
EditValues ==
    [ targetOutputRPM |-> {Num(120), Num(100), Num(-100)} ]

tick == frame(MaxEditTicks)

editRequirement ==
    \E field \in DOMAIN EditValues :
      \E value \in EditValues[field] : handleChange(field, value)

editVariability ==
    \E value \in InputVariabilities : handleChange("inputVariability", value)

\* App with the panel: short runs, the requirements edited at any moment.
EditNext ==
    \/ tick
    \/ toggleRunning
    \/ resetSimulation
    \/ handleOptimize
    \/ editRequirement
    \/ editVariability

SpecEdit == AppInit /\ [][EditNext]_vars

\* The values each number input of the panel is switched between.
LiveValues ==
    [ targetOutputTorque    |-> {Num(50), Num(5000)},
      targetOutputRPM       |-> {Num(120), Num(100)},
      nominalInputRPM       |-> {Num(1200), Num(1)},
      materialYieldStrength |-> {Num(250), Num(25)} ]

editNumber ==
    \E field \in DOMAIN LiveValues :
      \E value \in LiveValues[field] : handleChange(field, value)

\* App between two presses of the optimize button: short runs of the design
\* solved at construction, every field of the requirements edited at any
\* moment.
LiveNext == tick \/ toggleRunning \/ editNumber \/ editVariability

SpecLive == AppInit /\ [][LiveNext]_vars

-----------------------------------------------------------------------------
(* The solver and the simulator called on their own.  solveLog and stepLog *)
(* record the last two calls of each: the arguments and the value returned.*)

\* The largest simulation time passed to simulateStep, in pi/4 seconds.
MaxTime == 5

LastTwo(log) == IF Len(log) > 2 THEN Tail(log) ELSE log

Torques == {Num(50), Num(-50), Zero(1), Frac(2921, 100), Num(5000)}

OutputRPMs == {Num(120), Num(100), Num(-100), Num(7), Zero(1)}

InputRPMs == {Num(1200), Num(100), Num(1)}

YieldStrengths == {Num(250), Num(2000), Num(25), Zero(1)}

Requirements(T, O, I, S) ==
    [ targetOutputTorque    : T,
      targetOutputRPM       : O,
      nominalInputRPM       : I,
      materialYieldStrength : S,
      inputVariability      : InputVariabilities ]

SolveReqs == Requirements(Torques, OutputRPMs, InputRPMs, YieldStrengths)

\* The requirements whose designs are simulated: the initial ones, a
\* negative torque, a gear of 0 teeth, a ratio that is no integer, a module
\* above the table, a raw module that is a table entry (1 mm).
StepReqs ==
    Requirements({Num(50), Num(-50)}, {Num(120)}, {Num(1200)}, {Num(250)})
      \cup Requirements({Num(50)}, {Num(100)}, {Num(1)}, {Num(250)})
      \cup Requirements({Num(50)}, {Num(7)}, {Num(100)}, {Num(250)})
      \cup Requirements({Num(5000)}, {Num(100)}, {Num(100)}, {Num(25)})
      \cup Requirements({Frac(2921, 100)}, {Num(100)}, {Num(100)}, {Num(2000)})

\* A call of calculateGearDesign on the current requirements.
solveCall ==
    /\ design' = calculateGearDesign(req)
    /\ solveLog' = LastTwo(Append(solveLog, [req |-> req, result |-> design']))
    /\ UNCHANGED <<req, simulationData, isRunning, simTime, framePeriod, stepLog>>
    /\ UNCHANGED advisorVars

\* A call of simulateStep on the current design and requirements.
stepCall ==
    \E t \in 0..MaxTime, u \in DrawsFor(req) :
      /\ stepLog' = LastTwo(Append(stepLog,
                        [ time |-> t, design |-> design, req |-> req, draw |-> u,
                          result |-> simulateStep(t, design, req, u) ]))
      /\ UNCHANGED <<req, design, simulationData, isRunning, simTime,
                     framePeriod, solveLog>>
      /\ UNCHANGED advisorVars

setVariability == \E v \in InputVariabilities : handleChange("inputVariability", v)

SolveInit ==
    /\ req \in SolveReqs
    /\ design = calculateGearDesign(req)
    /\ solveLog = <<>>
    /\ stepLog = <<>>
    /\ simulationData = <<>>
    /\ isRunning = FALSE
    /\ simTime = 0
    /\ framePeriod = 1
    /\ AdvisorIdle

SolveNext == solveCall \/ setVariability

SpecSolve == SolveInit /\ [][SolveNext]_vars

StepInit ==
    /\ req \in StepReqs
    /\ design = calculateGearDesign(req)
    /\ solveLog = <<>>
    /\ stepLog = <<>>
    /\ simulationData = <<>>
    /\ isRunning = FALSE
    /\ simTime = 0
    /\ framePeriod = 1
    /\ AdvisorIdle

StepNext == stepCall \/ setVariability

SpecStep == StepInit /\ [][StepNext]_vars

-----------------------------------------------------------------------------
(* geminiService                                                           *)

\* Number.prototype.toFixed(digits), as the number its text denotes: the
\* magnitude rounded to that many decimals, the sign kept; NaN and the
\* infinities are written as they are.
toFixed(x, digits) ==
    IF x.k # "fin" THEN x
    ELSE IF x.s = 1
    THEN Div(Round(Mul(x, Sci(1, digits))), Sci(1, digits))
    ELSE Neg(Div(Round(Mul(Neg(x), Sci(1, digits))), Sci(1, digits)))

\* The "Current Design" lines of the system instruction.
systemPrompt(d) ==
    [ ratio        |-> toFixed(d.ratio, 2),
      module       |-> d.pinion.module,
      pinionTeeth  |-> d.pinion.teeth,
      pinionRPM    |-> toFixed(d.pinion.rpm, 0),
      pinionDia    |-> toFixed(d.pinion.diameter, 1),
      gearTeeth    |-> d.gear.teeth,
      gearTorque   |-> toFixed(d.gear.torque, 1),
      gearDia      |-> toFixed(d.gear.diameter, 1),
      safetyFactor |-> toFixed(d.safetyFactor, 2) ]

ErrorAdvice == "Error connecting to AI Advisor. Please check your API key."

NoAnalysis == "No analysis available."

\* The number of calls of getEngineeringAdvice explored.
MaxCalls == 2

\* The questions passed as userQuery.
Queries == {"Is nylon suitable for this torque?", ""}

\* What the external model call can do once the request is sent: resolve
\* with a text, with an empty text or with no text at all, reject, or
\* resolve to a response whose text cannot be read.
Responses ==
    { [kind |-> "text",       text |-> "Use case-hardened steel."],
      [kind |-> "empty",      text |-> ""],
      [kind |-> "undefined",  text |-> ""],
      [kind |-> "rejected",   text |-> ""],
      [kind |-> "textThrows", text |-> ""] }

\* The ways the try block is left by an exception: the client constructor,
\* the sending of the request, the awaited promise, the reading of the text.
Failures == {"clientThrows", "sendThrows", "rejected", "textThrows"}

\* response.text || "No analysis available."  (result: what the awaited
\* generateContent gave, the response of the source)
answer(result) ==
    IF result.kind = "text" /\ result.text # "" THEN result.text
    ELSE NoAnalysis

\* A faulty variant of settle: no catch, the exception leaves the function.
settleUncaught(call, result) ==
    IF result.kind \in Failures
    THEN [call EXCEPT !.state = "rejected", !.outcome = result.kind]
    ELSE [call EXCEPT !.state = "fulfilled", !.outcome = result.kind,
                      !.value = answer(result)]

\* The end of a call: return of the try block, or of the catch block.
settle(call, result) ==
    IF result.kind \in Failures
    THEN [call EXCEPT !.state = "fulfilled", !.outcome = result.kind,
                      !.value = ErrorAdvice]
    ELSE [call EXCEPT !.state = "fulfilled", !.outcome = result.kind,
                      !.value = answer(result)]

\* The call up to its await: the request built from the design and the query.
request(d, userQuery) ==
    [ contents          |-> userQuery,
      systemInstruction |-> systemPrompt(d),
      state             |-> "awaiting",
      outcome           |-> "pending",
      value             |-> "" ]

\* getEngineeringAdvice(design, userQuery) up to its await.  getGenAI creates
\* the client on first use, which may throw; so may the sending.
getEngineeringAdvice(userQuery) ==
    /\ Len(calls) < MaxCalls
    /\ \E start \in {"sent", "sendThrows"}
                      \cup (IF genAI THEN {} ELSE {"clientThrows"}) :
         /\ genAI' = (genAI \/ start # "clientThrows")
         /\ calls' = Append(calls,
              IF start = "sent" THEN request(design, userQuery)
              ELSE settle(request(design, userQuery),
                          [kind |-> start, text |-> ""]))
    /\ UNCHANGED <<req, design, simulationData, isRunning, simTime,
                   framePeriod, solveLog, stepLog, zoom, zoomClicks, exports>>

\* A call of the service on its own, by no component.
ask ==
    /\ \E userQuery \in Queries : getEngineeringAdvice(userQuery)
    /\ UNCHANGED assistantVars

\* The awaited generateContent of call i settles and the call returns.
returns(i) ==
    /\ calls[i].state = "awaiting"
    /\ \E result \in Responses :
         calls' = [calls EXCEPT ![i] = settle(@, result)]
    /\ UNCHANGED <<req, design, simulationData, isRunning, simTime,
                   framePeriod, solveLog, stepLog, genAI, zoom, zoomClicks, exports>>

generateContentSettles ==
    /\ \E i \in DOMAIN calls : returns(i)
    /\ UNCHANGED assistantVars

AdviceInit ==
    /\ req \in {r \in StepReqs : r.inputVariability = "constant"}
    /\ design = calculateGearDesign(req)
    /\ solveLog = <<>>
    /\ stepLog = <<>>
    /\ simulationData = <<>>
    /\ isRunning = FALSE
    /\ simTime = 0
    /\ framePeriod = 1
    /\ AdvisorIdle

AdviceNext == ask \/ generateContentSettles

SpecAdvice == AdviceInit /\ [][AdviceNext]_vars

-----------------------------------------------------------------------------
(* AiAssistant.  The text of the input is a sequence of characters.        *)

Whitespace == {" ", "\t"}

RECURSIVE trimStart(_)
trimStart(text) ==
    IF text # <<>> /\ Head(text) \in Whitespace
    THEN trimStart(Tail(text))
    ELSE text

RECURSIVE trimEnd(_)
trimEnd(text) ==
    IF text # <<>> /\ text[Len(text)] \in Whitespace
    THEN trimEnd(SubSeq(text, 1, Len(text) - 1))
    ELSE text

\* String.prototype.trim
trim(text) == trimEnd(trimStart(text))

\* The texts typed into the input: empty, blank, and two questions.
TypedQueries ==
    { <<>>, <<" ">>, <<" ", "\t">>, <<"a">>, <<" ", "b">> }

\* onChange of the input.
setQuery ==
    /\ \E text \in TypedQueries : query' = text
    /\ UNCHANGED <<appVars, solveLog, stepLog, genAI, calls, response,
                   loading, zoom, zoomClicks, exports>>

\* handleAsk up to its await.  A call that failed before its await has
\* returned the error string already; the continuation of handleAsk then
\* runs before any other event, and is part of the step.
handleAsk ==
    IF trim(query) = <<>>
    THEN UNCHANGED vars
    ELSE /\ getEngineeringAdvice(query)
         /\ query' = query
         /\ LET call == calls'[Len(calls')]
            IN  IF call.state = "awaiting"
                THEN /\ loading' = TRUE
                     /\ response' = Null
                ELSE /\ response' = String(call.value)
                     /\ loading' = FALSE

\* onKeyDown of the input, for the Enter key: no test of loading.
pressEnter == handleAsk

\* onClick of the send button, which is disabled while loading.
clickSend ==
    /\ ~loading
    /\ handleAsk

\* handleAsk after its await: the advice of a call that has returned is
\* shown and the busy flag cleared.
handleAskResumes ==
    \E i \in DOMAIN calls :
      /\ returns(i)
      /\ response' = String(calls'[i].value)
      /\ loading' = FALSE
      /\ query' = query

AssistantNext == setQuery \/ pressEnter \/ clickSend \/ handleAskResumes

SpecAssistant == AppInit /\ [][AssistantNext]_vars

-----------------------------------------------------------------------------
(* GearVisualizer                                                          *)

\* Math.min and Math.max of two numbers: NaN when either is NaN.
MathMin(a, b) ==
    IF a.k = "nan" \/ b.k = "nan" THEN NaN
    ELSE IF Leq(a, b) THEN a ELSE b

MathMax(a, b) ==
    IF a.k = "nan" \/ b.k = "nan" THEN NaN
    ELSE IF Geq(a, b) THEN a ELSE b

\* The number of presses of the zoom-in and zoom-out buttons explored.
MaxZoomClicks == 12

\* A faulty variant of zoomIn: the cap of 5 is missing.
zoomInUncapped ==
    /\ zoomClicks < MaxZoomClicks
    /\ zoom' = Mul(zoom, Frac(12, 10))
    /\ zoomClicks' = zoomClicks + 1
    /\ UNCHANGED <<appVars, solveLog, stepLog, genAI, calls, assistantVars,
                   exports>>

\* setZoom(z => Math.min(z * 1.2, 5))
zoomIn ==
    /\ zoomClicks < MaxZoomClicks
    /\ zoom' = MathMin(Mul(zoom, Frac(12, 10)), Num(5))
    /\ zoomClicks' = zoomClicks + 1
    /\ UNCHANGED <<appVars, solveLog, stepLog, genAI, calls, assistantVars,
                   exports>>

\* setZoom(z => Math.max(z / 1.2, 0.5))
zoomOut ==
    /\ zoomClicks < MaxZoomClicks
    /\ zoom' = MathMax(Div(zoom, Frac(12, 10)), Frac(5, 10))
    /\ zoomClicks' = zoomClicks + 1
    /\ UNCHANGED <<appVars, solveLog, stepLog, genAI, calls, assistantVars,
                   exports>>

\* The reset-view button: setZoom(1)
resetView ==
    /\ zoom' = Num(1)
    /\ UNCHANGED <<appVars, solveLog, stepLog, genAI, calls, assistantVars,
                   zoomClicks, exports>>

\* The speeds typed into the panel while the view is zoomed: 1200 to 120
\* and 100 to 10 give designs of one ratio and centre distance that differ
\* in the speed of the pinion.
ViewValues ==
    [ targetOutputRPM |-> {Num(120), Num(10)},
      nominalInputRPM |-> {Num(1200), Num(100)} ]

editSpeed ==
    \E field \in DOMAIN ViewValues :
      \E value \in ViewValues[field] : handleChange(field, value)

\* The visualizer under its three buttons, the design it is given changed
\* by edits of the speeds followed by optimize.
ViewNext == zoomIn \/ zoomOut \/ resetView \/ editSpeed \/ handleOptimize

SpecView == AppInit /\ [][ViewNext]_vars

-----------------------------------------------------------------------------
(* dxfExporter.  The file is kept as the sequence of its entities, and a   *)
(* coordinate as the radius and the angle, in units of pi, that its cosine *)
(* or sine is taken of.                                                    *)

\* a < b  (false when either is NaN)
Lt(a, b) == a.k # "nan" /\ b.k # "nan" /\ ~Geq(a, b)

pitchDiameter(gear) == Mul(gear.teeth, gear.module)

\* rootDiameter / 2
rRoot(gear) ==
    Div(Sub(pitchDiameter(gear), Mul(Frac(25, 10), gear.module)), Num(2))

\* outerDiameter / 2
rTip(gear) == Div(Add(pitchDiameter(gear), Mul(Num(2), gear.module)), Num(2))

\* (PI * module / 2) / (pitchDiameter / 2)
angularWidth(gear) ==
    Div(Div(gear.module, Num(2)), Div(pitchDiameter(gear), Num(2)))

\* t * (2 * PI) / teeth
angleAt(t, gear) == Div(Mul(Num(t), Num(2)), gear.teeth)

\* {x: r * Math.cos(angle), y: r * Math.sin(angle)}
polar(radius, angle) ==
    [ x |-> [radius |-> radius, of |-> "cos", angle |-> angle],
      y |-> [radius |-> radius, of |-> "sin", angle |-> angle] ]

\* The four points pushed for tooth t: root, tip start, tip end, root end.
toothPoints(t, gear) ==
    << polar(rRoot(gear), angleAt(t, gear)),
       polar(rTip(gear),
             Add(angleAt(t, gear), Mul(angularWidth(gear), Frac(4, 10)))),
       polar(rTip(gear),
             Add(angleAt(t, gear), Mul(angularWidth(gear), Frac(6, 10)))),
       polar(rRoot(gear), angleAt(t + 1, gear)) >>

\* for (let t = 0; t < teeth; t++)
RECURSIVE gearLoop(_, _, _)
gearLoop(t, gear, points) ==
    IF Lt(Num(t), gear.teeth)
    THEN gearLoop(t + 1, gear, points \o toothPoints(t, gear))
    ELSE points

\* A VERTEX record: layer 0, x and y with four decimals, z 0.0.
VERTEX(p) ==
    [ entity |-> "VERTEX", layer |-> "0",
      x |-> [toFixed |-> 4, value |-> p.x],
      y |-> [toFixed |-> 4, value |-> p.y],
      z |-> "0.0" ]

\* The text written for the points: the header, the POLYLINE, a VERTEX for
\* each point and one more for points[0], SEQEND, ENDSEC, EOF.  Reading
\* points[0].x of an empty array throws a TypeError.
writeDXF(points) ==
    IF points = <<>>
    THEN [kind |-> "threw", dxf |-> <<>>]
    ELSE [kind |-> "returned",
          dxf  |-> << [entity |-> "SECTION", name |-> "ENTITIES"],
                      [entity |-> "POLYLINE", layer |-> "0", follow |-> 1] >>
                   \o [i \in 1..Len(points) |-> VERTEX(points[i])]
                   \o << VERTEX(points[1]),
                         [entity |-> "SEQEND"],
                         [entity |-> "ENDSEC"],
                         [entity |-> "EOF"] >>]

\* With teeth = Infinity the loop pushes points without end and nothing is
\* returned.
generateGearDXF(gear) ==
    IF gear.teeth = Inf(1)
    THEN [kind |-> "diverged", dxf |-> <<>>]
    ELSE writeDXF(gearLoop(0, gear, <<>>))

\* downloadDXF(gear, name), as far as the text it builds.
downloadDXF(gear, name) ==
    /\ exports' = LastTwo(Append(exports,
                     [ name |-> name, gear |-> gear,
                       result |-> generateGearDXF(gear) ]))
    /\ UNCHANGED <<appVars, solveLog, stepLog, genAI, calls, assistantVars,
                   zoom, zoomClicks>>

\* The P.DXF and G.DXF buttons of GearVisualizer.
downloadPinion == downloadDXF(design.pinion, "Pinion")

downloadGear == downloadDXF(design.gear, "Gear")

\* The requirements whose designs are exported: gears of 15 and 18 teeth,
\* of 0 and -0 teeth, of -18 teeth and of infinitely many.
DxfReqs ==
    Requirements({Num(50)}, {Num(120), Num(100), Num(-100), Zero(1)},
                 {Num(100), Num(1)}, {Num(250)})

DxfInit ==
    /\ req \in DxfReqs
    /\ design = calculateGearDesign(req)
    /\ solveLog = <<>>
    /\ stepLog = <<>>
    /\ simulationData = <<>>
    /\ isRunning = FALSE
    /\ simTime = 0
    /\ framePeriod = 1
    /\ AdvisorIdle

DxfNext == downloadPinion \/ downloadGear

SpecDxf == DxfInit /\ [][DxfNext]_vars

-----------------------------------------------------------------------------
(* Properties.  Equality of numbers is identity of values: NaN is the same *)
(* value as NaN, and +0 differs from -0.                                   *)

IsPositiveInteger(x) == x.k = "fin" /\ x.s = 1 /\ x.n > 0 /\ x.d = 1 /\ x.e >= 0

StandardModuleSet == {standardModules[i] : i \in DOMAIN standardModules}

\* The raw module is a number above 20.
ExceedsTable(raw) == raw.cube.k # "nan" /\ ~GeqRoot(Num(20), raw)

Cube(m) == Mul(m, Mul(m, m))

\* The requirements agree on everything but inputVariability.
SameNumbers(r1, r2) == [r1 EXCEPT !.inputVariability = "constant"]
                         = [r2 EXCEPT !.inputVariability = "constant"]

\* The point without its time.
Untimed(point) == [point EXCEPT !.time = 0]

\* C1: the history holds at most 200 points and is always the most recent
\* up-to-200 points in production order (the point of frame j carries time
\* j * framePeriod); a tick on a full buffer drops the head, shifts the rest
\* and puts the new point last.
C1_Recent ==
    /\ Len(simulationData) <= HistoryCap
    /\ Len(simulationData) = Min(HistoryCap, simTime \div framePeriod)
    /\ \A i \in 1..Len(simulationData) :
         simulationData[i].time
           = simTime - (Len(simulationData) - i) * framePeriod

C1_EvictsHead ==
    (Len(simulationData) = HistoryCap /\ simTime' > simTime)
      => /\ Len(simulationData') = HistoryCap
         /\ SubSeq(simulationData', 1, HistoryCap - 1) = Tail(simulationData)
         /\ simulationData'[HistoryCap].time = simTime'

C1_HistoryBoundedFifo == [] C1_Recent /\ [][C1_EvictsHead]_vars

\* C1 witness: the buffer is full and its head is no longer the first point
\* of the run.
C1_Witness ==
    /\ Len(simulationData) = HistoryCap
    /\ simulationData[1].time > framePeriod

\* C2: for requirements with targetOutputRPM # 0 and nominalInputRPM > 0 the
\* teeth of the pinion and of the gear are positive integers.
C2_TeethPositive ==
    \A i \in DOMAIN solveLog :
      LET r == solveLog[i].req
          d == solveLog[i].result
      IN  ( /\ r.targetOutputRPM.k = "fin"
            /\ r.targetOutputRPM.n # 0
            /\ r.nominalInputRPM.k = "fin"
            /\ r.nominalInputRPM.n # 0
            /\ r.nominalInputRPM.s = 1 )
            => /\ IsPositiveInteger(d.pinion.teeth)
               /\ IsPositiveInteger(d.gear.teeth)

\* C3: ratio is gear.teeth / pinion.teeth, gear.teeth is round(18 *
\* nominalInputRPM / targetOutputRPM) and pinion.teeth is 18, for every result.
C3_RatioIntegrity ==
    \A i \in DOMAIN solveLog :
      LET r == solveLog[i].req
          d == solveLog[i].result
      IN  /\ d.ratio = Div(d.gear.teeth, d.pinion.teeth)
          /\ d.gear.teeth
               = Round(Mul(Num(18), Div(r.nominalInputRPM, r.targetOutputRPM)))
          /\ d.pinion.teeth = Num(18)

\* C3 witness: a result whose realized ratio differs from the nominal one,
\* the teeth having been rounded.
C3_Witness ==
    \E i \in DOMAIN solveLog :
      /\ solveLog[i].result.ratio.k = "fin"
      /\ solveLog[i].result.ratio
           # Div(solveLog[i].req.nominalInputRPM, solveLog[i].req.targetOutputRPM)

\* C4: the module of both gears is an entry of the standard table, unless the
\* raw module exceeds 20 and then it is the ceiling of the raw module; nothing
\* else (no NaN) is selected.
C4_ModuleStandard ==
    \A i \in DOMAIN solveLog :
      LET d   == solveLog[i].result
          raw == moduleMm(solveLog[i].req)
      IN  /\ d.gear.module = d.pinion.module
          /\ IF ExceedsTable(raw)
             THEN d.pinion.module = CeilRoot(raw)
             ELSE d.pinion.module \in StandardModuleSet

\* C5: the module is at least the raw module; when the raw module is at most
\* 20 it is the smallest table entry that is at least the raw module, and a
\* raw module equal to a table entry selects that entry.
C5_SnappedUpward ==
    \A i \in DOMAIN solveLog :
      LET m   == solveLog[i].result.pinion.module
          raw == moduleMm(solveLog[i].req)
      IN  /\ GeqRoot(m, raw)
          /\ GeqRoot(Num(20), raw)
               => /\ m \in StandardModuleSet
                  /\ \A t \in StandardModuleSet : GeqRoot(t, raw) => Geq(t, m)
          /\ \A t \in StandardModuleSet : raw.cube = Cube(t) => m = t

\* C6: for the pinion and the gear, diameter is teeth * module and faceWidth
\* is 10 * module; both carry the same module and the pressure angle 20.
C6_Dimensions ==
    \A i \in DOMAIN solveLog :
      LET d == solveLog[i].result
      IN  /\ \A g \in {d.pinion, d.gear} :
               /\ g.diameter = Mul(g.teeth, g.module)
               /\ g.faceWidth = Mul(Num(10), g.module)
               /\ g.pressureAngle = Num(20)
          /\ d.pinion.module = d.gear.module

\* C6 witness: a result with finite dimensions whose gear is larger than its
\* pinion.
C6_Witness ==
    \E i \in DOMAIN solveLog :
      /\ solveLog[i].result.gear.diameter.k = "fin"
      /\ solveLog[i].result.gear.diameter # solveLog[i].result.pinion.diameter
      /\ solveLog[i].result.gear.faceWidth.k = "fin"

\* C7: centerDistance is (pinion.diameter + gear.diameter) / 2, that is
\* module * (18 + gear.teeth) / 2.
C7_CenterDistance ==
    \A i \in DOMAIN solveLog :
      LET d == solveLog[i].result
      IN  /\ d.centerDistance
               = Div(Add(d.pinion.diameter, d.gear.diameter), Num(2))
          /\ d.centerDistance
               = Div(Mul(d.pinion.module, Add(Num(18), d.gear.teeth)), Num(2))

\* C8: two calls of calculateGearDesign whose requirements agree on the four
\* numbers return the same DesignResult, whatever inputVariability is.
C8_SolveIgnoresVariability ==
    \A i, j \in DOMAIN solveLog :
      SameNumbers(solveLog[i].req, solveLog[j].req)
        => solveLog[i].result = solveLog[j].result

\* C8 witness: two calls were made under different inputVariability.
C8_Witness ==
    /\ Len(solveLog) = 2
    /\ solveLog[1].req.inputVariability # solveLog[2].req.inputVariability
    /\ solveLog[2].result.pinion.module.k = "fin"

\* C9: in constant mode the point returned carries time = t, and two calls
\* with the same design return points that differ in time only.
C9_ConstantModeTimeInvariant ==
    /\ \A i \in DOMAIN stepLog :
         stepLog[i].req.inputVariability = "constant"
           => stepLog[i].result.time = stepLog[i].time
    /\ \A i, j \in DOMAIN stepLog :
         ( /\ stepLog[i].req.inputVariability = "constant"
           /\ stepLog[j].req.inputVariability = "constant"
           /\ stepLog[i].design = stepLog[j].design )
           => Untimed(stepLog[i].result) = Untimed(stepLog[j].result)

\* C9 witness: two calls in constant mode at different times.
C9_Witness ==
    /\ Len(stepLog) = 2
    /\ stepLog[1].req.inputVariability = "constant"
    /\ stepLog[2].req.inputVariability = "constant"
    /\ stepLog[1].time # stepLog[2].time
    /\ stepLog[1].result.stress.k = "fin"

\* C10: outputTorque is design.gear.torque and inputTorque is
\* design.gear.torque / design.ratio in every mode and at every time; the
\* torques and the stress of two calls on the same design agree whatever the
\* modes, the times and the draws.
C10_TorqueIgnoresSpeed ==
    /\ \A i \in DOMAIN stepLog :
         /\ stepLog[i].result.outputTorque = stepLog[i].design.gear.torque
         /\ stepLog[i].result.inputTorque
              = Div(stepLog[i].design.gear.torque, stepLog[i].design.ratio)
    /\ \A i, j \in DOMAIN stepLog :
         stepLog[i].design = stepLog[j].design
           => /\ stepLog[i].result.inputTorque = stepLog[j].result.inputTorque
              /\ stepLog[i].result.outputTorque = stepLog[j].result.outputTorque
              /\ stepLog[i].result.stress = stepLog[j].result.stress

\* C10 witness: two calls on one design whose input speeds differ.
C10_Witness ==
    /\ Len(stepLog) = 2
    /\ stepLog[1].design = stepLog[2].design
    /\ stepLog[1].result.inputRPM # stepLog[2].result.inputRPM
    /\ stepLog[1].result.stress.k = "fin"

\* The number x lies between lo * rpm and hi * rpm, for an rpm that is a
\* number >= 0.
Within(x, lo, hi, rpm) ==
    (rpm.k = "fin" /\ rpm.s = 1)
      => /\ Geq(x, Mul(lo, rpm))
         /\ Leq(x, Mul(hi, rpm))

\* C11: in noise mode, whatever Math.random() returns in [0, 1), inputRPM
\* lies between 0.8 and 1.2 times design.pinion.rpm, and outputRPM is
\* inputRPM / design.ratio.
C11_NoiseBound ==
    \A i \in DOMAIN stepLog :
      stepLog[i].req.inputVariability = "noise"
        => /\ Within(stepLog[i].result.inputRPM, Frac(8, 10), Frac(12, 10),
                     stepLog[i].design.pinion.rpm)
           /\ stepLog[i].result.outputRPM
                = Div(stepLog[i].result.inputRPM, stepLog[i].design.ratio)

\* C11 witness: two noise calls on one design, one at the lower end of the
\* band (draw 0) and one above the nominal speed.
C11_Witness ==
    /\ Len(stepLog) = 2
    /\ stepLog[1].req.inputVariability = "noise"
    /\ stepLog[2].req.inputVariability = "noise"
    /\ stepLog[1].design = stepLog[2].design
    /\ stepLog[1].result.inputRPM
         = Mul(Frac(8, 10), stepLog[1].design.pinion.rpm)
    /\ ~Leq(stepLog[2].result.inputRPM, stepLog[2].design.pinion.rpm)

\* C12: in sine mode inputRPM has period pi in time (4 units of pi/4), is
\* the same for the same time in every call, and lies between 0.7 and 1.3
\* times design.pinion.rpm.
C12_SinePeriodic ==
    /\ \A i \in DOMAIN stepLog :
         stepLog[i].req.inputVariability = "sine"
           => Within(stepLog[i].result.inputRPM, Frac(7, 10), Frac(13, 10),
                     stepLog[i].design.pinion.rpm)
    /\ \A i, j \in DOMAIN stepLog :
         ( /\ stepLog[i].req.inputVariability = "sine"
           /\ stepLog[j].req.inputVariability = "sine"
           /\ stepLog[i].design = stepLog[j].design
           /\ stepLog[j].time \in {stepLog[i].time, stepLog[i].time + 4} )
           => stepLog[i].result.inputRPM = stepLog[j].result.inputRPM

\* C12 witness: two sine calls one period apart, at a crest of the ripple.
C12_Witness ==
    /\ Len(stepLog) = 2
    /\ stepLog[1].req.inputVariability = "sine"
    /\ stepLog[2].req.inputVariability = "sine"
    /\ stepLog[1].design = stepLog[2].design
    /\ stepLog[2].time = stepLog[1].time + 4
    /\ stepLog[1].result.inputRPM
         = Mul(Frac(13, 10), stepLog[1].design.pinion.rpm)

\* C13: the points of the history are ordered by non-decreasing time, and a
\* tick that adds a point to a history that is not empty adds one whose time
\* is later than that of the point produced before it.
C13_Ordered ==
    \A i \in 1..(Len(simulationData) - 1) :
      simulationData[i].time <= simulationData[i + 1].time

C13_TickAdvances ==
    (simTime' # simTime /\ simulationData # <<>> /\ simulationData' # <<>>)
      => simulationData'[Len(simulationData')].time
           > simulationData[Len(simulationData)].time

C14_OnlyOptimize ==
    /\ design' # design
         => /\ design' = calculateGearDesign(req)
            /\ handleOptimize
    /\ (req' # req \/ simTime' > simTime \/ isRunning' # isRunning
          \/ resetSimulation)
         => design' = design

C14_DesignFrame == [][C14_OnlyOptimize]_vars

\* C14 witness: the requirements have been edited and an optimize step has
\* then solved the design for them, restarting the clock.
C14_Witness ==
    /\ design # calculateGearDesign(req)
    /\ design # calculateGearDesign(InitialReq)
    /\ simulationData # <<>>
    /\ simulationData[Len(simulationData)].outputTorque = design.gear.torque

\* C15: for the requirements 50 Nm, 120 RPM, 1200 RPM, 250 MPa the nominal
\* ratio is 10, pinion.teeth 18, gear.teeth 180, ratio 10 and pinion.torque
\* 5; the module is the smallest table entry that is at least the raw
\* module, and the diameters and centerDistance follow from it.
C15_ExampleDesign ==
    \A i \in DOMAIN solveLog :
      LET r   == solveLog[i].req
          d   == solveLog[i].result
          raw == moduleMm(r)
      IN  SameNumbers(r, InitialReq)
            => /\ Div(r.nominalInputRPM, r.targetOutputRPM) = Num(10)
               /\ d.pinion.teeth = Num(18)
               /\ d.gear.teeth = Num(180)
               /\ d.ratio = Num(10)
               /\ d.pinion.torque = Num(5)
               /\ d.pinion.module \in StandardModuleSet
               /\ d.gear.module = d.pinion.module
               /\ GeqRoot(d.pinion.module, raw)
               /\ \A t \in StandardModuleSet :
                    GeqRoot(t, raw) => Geq(t, d.pinion.module)
               /\ d.pinion.diameter = Mul(Num(18), d.pinion.module)
               /\ d.gear.diameter = Mul(Num(180), d.pinion.module)
               /\ d.centerDistance
                    = Div(Mul(Num(198), d.pinion.module), Num(2))

\* C15 witness: the example was solved; its module is 1.25 mm and its
\* centerDistance 123.75 mm.
C15_Witness ==
    \E i \in DOMAIN solveLog :
      /\ SameNumbers(solveLog[i].req, InitialReq)
      /\ solveLog[i].result.pinion.module = Frac(5, 4)
      /\ solveLog[i].result.centerDistance = Frac(12375, 100)

\* C16: for the design solved from 50 Nm, 120 RPM, 1200 RPM, 250 MPa, in
\* constant mode, simulateStep at time 0 returns outputTorque 50,
\* inputTorque 5, outputRPM 120 and inputRPM 1200.
C16_StepAtZero ==
    \A i \in DOMAIN stepLog :
      ( /\ stepLog[i].req = InitialReq
        /\ stepLog[i].design = calculateGearDesign(InitialReq)
        /\ stepLog[i].time = 0 )
        => /\ stepLog[i].result.outputTorque = Num(50)
           /\ stepLog[i].result.inputTorque = Num(5)
           /\ stepLog[i].result.outputRPM = Num(120)
           /\ stepLog[i].result.inputRPM = Num(1200)

\* C16 witness: the call was made; it returned time 0 and a stress of about
\* 87.6 MPa.
C16_Witness ==
    \E i \in DOMAIN stepLog :
      /\ stepLog[i].req = InitialReq
      /\ stepLog[i].design = calculateGearDesign(InitialReq)
      /\ stepLog[i].time = 0
      /\ stepLog[i].result.time = 0
      /\ Geq(stepLog[i].result.stress, Num(87))
      /\ Leq(stepLog[i].result.stress, Num(88))

\* C17: the safetyFactor of every DesignResult is 2, whatever the
\* requirements, the raw module and the selected module are.
C17_SafetyFactorConstant ==
    \A i \in DOMAIN solveLog : solveLog[i].result.safetyFactor = Num(2)

\* C17 witness: two calls under different requirements returned a module
\* that is above the raw module by more than a quarter.
C17_Witness ==
    /\ Len(solveLog) = 2
    /\ solveLog[1].result.pinion.module.k = "fin"
    /\ solveLog[2].result.pinion.module.k = "fin"
    /\ ~GeqRoot(Mul(Frac(4, 5), solveLog[2].result.pinion.module),
                moduleMm(solveLog[2].req))
    /\ solveLog[1].req # solveLog[2].req

\* A number above zero.
IsPositive(x) == x.k \in {"fin", "inf"} /\ x.s = 1 /\ ~IsZero(x)

\* C19: for a design solved from requirements with positive torque, positive
\* yield strength and a positive realized ratio, the stress simulateStep
\* reports is at most materialYieldStrength / 2 MPa, in every mode and at
\* every time.  (The design of a call is the one solved from the numbers of
\* its requirements: StepInit solves it, and only inputVariability is edited.)
C19_StressWithinAllowable ==
    \A i \in DOMAIN stepLog :
      LET r == stepLog[i].req
          d == stepLog[i].design
      IN  ( /\ d.gear.torque = r.targetOutputTorque
            /\ d.pinion.rpm = r.nominalInputRPM
            /\ IsPositive(r.targetOutputTorque)
            /\ IsPositive(r.materialYieldStrength)
            /\ IsPositive(d.ratio) )
            => Leq(stepLog[i].result.stress,
                   Div(r.materialYieldStrength, Num(2)))

\* C19 witness: a design whose raw module is a table entry was simulated in
\* sine or noise mode; its stress is the allowable stress exactly.
C19_Witness ==
    \E i \in DOMAIN stepLog :
      /\ stepLog[i].req.inputVariability # "constant"
      /\ IsPositive(stepLog[i].req.targetOutputTorque)
      /\ IsPositive(stepLog[i].design.ratio)
      /\ stepLog[i].time > 0
      /\ stepLog[i].result.stress
           = Div(stepLog[i].req.materialYieldStrength, Num(2))

\* C20: an optimize step and a reset step end with the clock at 0 and an
\* empty history, whether the simulation is running or not, and leave the
\* requirements and the running flag as they were; a reset leaves the design
\* too.  No other step turns the clock back.
C20_Clears ==
    /\ (handleOptimize \/ resetSimulation \/ simTime' < simTime)
         => /\ simTime' = 0
            /\ simulationData' = <<>>
            /\ req' = req
            /\ isRunning' = isRunning
    /\ resetSimulation => design' = design

C18_AdviceNeverRejects ==
    \A i \in DOMAIN calls :
      /\ calls[i].state \in {"awaiting", "fulfilled"}
      /\ calls[i].state = "fulfilled"
           => /\ calls[i].value \in STRING
              /\ calls[i].outcome \in Failures
                   => calls[i].value = ErrorAdvice
              /\ calls[i].outcome \notin Failures
                   => calls[i].value # ErrorAdvice

\* C18 witness: a call whose client could not be created and a call whose
\* awaited request was rejected have both returned the error string.
C18_Witness ==
    /\ Len(calls) = 2
    /\ calls[1].outcome = "clientThrows"
    /\ calls[1].value = ErrorAdvice
    /\ calls[2].outcome = "rejected"
    /\ calls[2].state = "fulfilled"
    /\ calls[2].value = ErrorAdvice

\* C21: whenever the history is not empty its last point is at the clock.
\* While paused, the clock and the history change only by being cleared, so
\* a frame changes neither.  While running, a frame advances the clock by
\* the frame period and appends exactly one point, at the new clock: the
\* history is the old one with that point at its end, less the head when
\* the old one was full.
C21_LastAtClock ==
    simulationData # <<>>
      => simulationData[Len(simulationData)].time = simTime

C21_Tick ==
    /\ (~isRunning /\ <<simTime, simulationData>>' # <<simTime, simulationData>>)
         => /\ simTime' = 0
            /\ simulationData' = <<>>
    /\ (~isRunning /\ loop) => UNCHANGED <<simTime, simulationData>>
    /\ (isRunning /\ loop) => simTime' > simTime
    /\ simTime' > simTime
         => /\ isRunning
            /\ simTime' = simTime + framePeriod
            /\ simulationData' # <<>>
            /\ simulationData'[Len(simulationData')].time = simTime'
            /\ LET n     == Len(simulationData)
                   n2    == Len(simulationData')
                   drop  == IF n = HistoryCap THEN 1 ELSE 0
               IN  /\ n2 = n + 1 - drop
                   /\ SubSeq(simulationData', 1, n2 - 1)
                        = SubSeq(simulationData, 1 + drop, n)

LiveReqs(v) ==
    { [ targetOutputTorque    |-> T,
        targetOutputRPM       |-> O,
        nominalInputRPM       |-> I,
        materialYieldStrength |-> S,
        inputVariability      |-> v ] :
        T \in LiveValues.targetOutputTorque,
        O \in LiveValues.targetOutputRPM,
        I \in LiveValues.nominalInputRPM,
        S \in LiveValues.materialYieldStrength }

\* C22: the point a tick produces is the one simulateStep gives for the new
\* clock, the design and any requirements that have the current input
\* variability, whatever their torque, speeds and yield strength: editing
\* those four without an optimize changes no field of the points produced
\* afterwards.  The input variability of the moment is the one applied: a
\* point produced under "constant" runs at the speed of the design's pinion,
\* one produced under "sine" off a zero of the sine does not.
C22_TickPoint ==
    simTime' > simTime
      => LET point == simulationData'[Len(simulationData')]
         IN  /\ \E u \in DrawsFor(req) :
                  \A r \in LiveReqs(req.inputVariability) :
                    point = simulateStep(simTime', design, r, u)
             /\ req.inputVariability = "constant"
                  => point.inputRPM = design.pinion.rpm
             /\ (req.inputVariability = "sine" /\ ~IsZero(SinTwice(simTime')))
                  => point.inputRPM # design.pinion.rpm

C22_OnlyVariabilityLive == [][C22_TickPoint]_vars

\* C22 witness: with the design of construction, a point was produced under
\* "sine" and the next one under "noise", at speeds that differ from the
\* design's, while all four numbers of the requirements stand edited.
C22_Witness ==
    /\ Len(simulationData) = 2
    /\ design.pinion.rpm = Num(1200)
    /\ simulationData[1].inputRPM = Num(1560)
    /\ simulationData[2].inputRPM = Num(960)
    /\ req.inputVariability = "noise"
    /\ req.targetOutputTorque = Num(5000)
    /\ req.targetOutputRPM = Num(100)
    /\ req.nominalInputRPM = Num(1)
    /\ req.materialYieldStrength = Num(25)

\* C23: at most one call of getEngineeringAdvice is awaited at a time; the
\* busy flag is off only when none is; and an advice that is shown is the one
\* returned for the query submitted last.
C23_OneRequestInFlight ==
    LET awaited == {i \in DOMAIN calls : calls[i].state = "awaiting"}
    IN  /\ Cardinality(awaited) <= 1
        /\ ~loading => awaited = {}
        /\ response # Null
             => /\ calls # <<>>
                /\ calls[Len(calls)].state = "fulfilled"
                /\ response = String(calls[Len(calls)].value)

\* C24: the zoom stays within [0.5, 5].  A zoom-in sets it to 1.2 times its
\* value, or to 5 when that is more; a zoom-out to its value divided by 1.2,
\* or to 0.5 when that is less; reset-view sets it to 1, and so does a step
\* that changes the ratio or the centre distance of the design.  The zoom
\* changes in no other way.
C24_InRange ==
    /\ Geq(zoom, Frac(5, 10))
    /\ Leq(zoom, Num(5))

C24_ZoomStep ==
    LET larger  == Mul(zoom, Frac(12, 10))
        smaller == Div(zoom, Frac(12, 10))
        zoomed  == IF Geq(larger, Num(5)) THEN Num(5) ELSE larger
        shrunk  == IF Leq(smaller, Frac(5, 10)) THEN Frac(5, 10) ELSE smaller
    IN  /\ zoomIn => zoom' = zoomed
        /\ zoomOut => zoom' = shrunk
        /\ resetView => zoom' = Num(1)
        /\ (design'.ratio # design.ratio
              \/ design'.centerDistance # design.centerDistance)
             => zoom' = Num(1)
        /\ zoom' # zoom => zoom' \in {zoomed, shrunk, Num(1)}

C24_ZoomBounded == [] C24_InRange /\ [][C24_ZoomStep]_vars

\* C24 witness: with a design of another ratio than the first, nine zoom-ins
\* from 1 have brought the zoom to its cap.
C24_Witness ==
    /\ zoom = Num(5)
    /\ zoomClicks = 9
    /\ design.ratio = Num(120)

\* The entities of a file that are of the given kind, in order.
Entities(dxf, kind) == SelectSeq(dxf, LAMBDA e : e.entity = kind)

\* C25: every call of generateGearDXF returns a file with one POLYLINE and
\* 4 * teeth + 1 VERTEX records, the last VERTEX equal to the first, and
\* the file ends with that VERTEX, SEQEND, ENDSEC and EOF: also for a gear
\* of 0 teeth.
C25_ClosedOutline ==
    \A i \in DOMAIN exports :
      LET dxf      == exports[i].result.dxf
          vertices == Entities(dxf, "VERTEX")
          n        == Len(dxf)
      IN  /\ exports[i].result.kind = "returned"
          /\ Len(Entities(dxf, "POLYLINE")) = 1
          /\ Num(Len(vertices))
               = Add(Mul(Num(4), exports[i].gear.teeth), Num(1))
          /\ vertices[Len(vertices)] = vertices[1]
          /\ dxf[n - 3] = vertices[Len(vertices)]
          /\ dxf[n - 2].entity = "SEQEND"
          /\ dxf[n - 1].entity = "ENDSEC"
          /\ dxf[n].entity = "EOF"

====
